---- MODULE Spec2Model ----
(***************************************************************************)
(* A model of mailarchive: the content-addressed archive engine            *)
(* (MailArchive.add_message / update_message / check), its index record    *)
(* codec (MailArchiveRecord) and the import driver's process_message.      *)
(*                                                                         *)
(* Python strings are sequences of tokens.  A token is a character or an   *)
(* indivisible word; the record delimiter "::" is the two tokens ":" ":".  *)
(***************************************************************************)
EXTENDS Integers, Sequences, FiniteSets, TLC

VARIABLES
    store,      \* the key-value store: content hash -> serialized record
    mail,       \* the maildir's messages: msgid -> [folder, hash, flags, mtime]
    dirs,       \* the folders that exist in the maildir
    folders,    \* MailArchive.folders: the engine's cache of folder names
    nextId,     \* the number of the next message id the maildir hands out
    pc,         \* "idle", or the position inside check: "A", "B"
    chk,        \* the locals of the running (or last) check
    last,       \* the last completed operation and what it returned
    ops,        \* engine operations performed so far
    ext,        \* external modifications of the archive so far
    hist,       \* history: what was imported, which check preceded
    cls,        \* a message handed to the folder classifier, and its answer
    kv,         \* a store backend of stores.py, driven on its own
    run,        \* one run of the command: script.py start and main
    pool,       \* the worker pool of an import: tasks, workers' locals
    codec       \* a record or a string handed to MailArchiveRecord

\* the archive engine's state
engine == <<store, mail, dirs, folders, nextId, pc, chk, last, ops, ext, hist>>

\* what the engine's operations do not touch
side == <<cls, kv, run, pool, codec>>

vars == <<engine, side>>

----------------------------------------------------------------------------
(* Bounds *)

MaxMtime == 2
MaxMsgs == 2
MaxOps == 3
MaxExt == 1
MaxInterrupts == 1
MaxClock == 2
MaxFields == 5

----------------------------------------------------------------------------
(* Outcome codes, outputs.py *)

ADDED == "+"
UPDATED == "^"
EXISTING == "."

----------------------------------------------------------------------------
(* Strings *)

None == <<"\\None">>

\* The tokens in the order Python compares the strings they stand for.
TokOrder ==
    <<".", "/", "0", "1", "2", "3", "4", "5", "6", "7", "8", "9", ":",
      "Apple Mail To Do", "Archive", "D", "Drafts", "F", "Notes", "P", "R",
      "S", "Sent", "T", "Trash", "garbage", "m">>

Rank(t) == CHOOSE i \in 1..Len(TokOrder) : TokOrder[i] = t

RECURSIVE StrLess(_, _)
StrLess(a, b) ==
    IF b = <<>> THEN FALSE
    ELSE IF a = <<>> THEN TRUE
    ELSE IF Head(a) = Head(b) THEN StrLess(Tail(a), Tail(b))
    ELSE Rank(Head(a)) < Rank(Head(b))

\* sorted(S) for a set of strings
RECURSIVE Sorted(_)
Sorted(S) ==
    IF S = {} THEN <<>>
    ELSE LET m == CHOOSE x \in S : \A y \in S \ {x} : StrLess(x, y)
         IN <<m>> \o Sorted(S \ {m})

Chars(s) == {s[i] : i \in 1..Len(s)}

\* "".join(sorted(set(a).union(set(b))))
JoinSorted(S) == SelectSeq(TokOrder, LAMBDA t : t \in S)

DigitTok == <<"0", "1", "2", "3", "4", "5", "6", "7", "8", "9">>

RECURSIVE Digits(_)
Digits(n) ==
    IF n < 10 THEN <<DigitTok[n + 1]>>
    ELSE Digits(n \div 10) \o <<DigitTok[(n % 10) + 1]>>

IsDigit(t) == \E i \in 1..10 : DigitTok[i] = t

DigitVal(t) == (CHOOSE i \in 1..10 : DigitTok[i] = t) - 1

RECURSIVE Number(_)
Number(s) ==
    IF Len(s) = 1 THEN DigitVal(s[1])
    ELSE 10 * Number(SubSeq(s, 1, Len(s) - 1)) + DigitVal(s[Len(s)])

\* repr(float) of a whole, non-negative float
Repr(t) == Digits(t) \o <<".", "0">>

\* float(str): the value, or -1 where Python raises ValueError
Float(s) ==
    LET whole == IF Len(s) >= 2 /\ SubSeq(s, Len(s) - 1, Len(s)) = <<".", "0">>
                 THEN SubSeq(s, 1, Len(s) - 2) ELSE s
    IN  IF whole # <<>> /\ \A i \in 1..Len(whole) : IsDigit(whole[i])
        THEN Number(whole) ELSE -1

\* "%04d" % n
RECURSIVE Pad4(_)
Pad4(s) == IF Len(s) >= 4 THEN s ELSE Pad4(<<"0">> \o s)

----------------------------------------------------------------------------
(* MailArchiveRecord *)

delimiter == <<":", ":">>

\* str.split(delimiter): leftmost delimiters first, empty fields kept
RECURSIVE Split(_, _)
Split(s, cur) ==
    IF s = <<>> THEN <<cur>>
    ELSE IF Len(s) >= 2 /\ SubSeq(s, 1, 2) = delimiter
         THEN <<cur>> \o Split(SubSeq(s, 3, Len(s)), <<>>)
         ELSE Split(Tail(s), Append(cur, Head(s)))

\* delimiter.join(parts)
RECURSIVE Join(_)
Join(parts) ==
    IF Len(parts) = 1 THEN parts[1]
    ELSE parts[1] \o delimiter \o Join(Tail(parts))

\* The attribute content_hash of a record built from a string is never set.
Unset == "<unset>"

\* MailArchiveRecord(content_hash=, msgid=, flags=, mtime=, folder=)
NewRecord(content_hash, msgid, flags, mtime, folder) ==
    [folder |-> folder, msgid |-> msgid, flags |-> flags, mtime |-> mtime,
     content_hash |-> content_hash]

\* MailArchiveRecord(string): [err, rec]
ParseRecord(string) ==
    IF string = <<>> \* a falsy string takes the keyword branch with its defaults
    THEN [err |-> "", rec |-> NewRecord("<None>", None, <<>>, 0, None)]
    ELSE LET parts == Split(string, <<>>)
         IN  IF Len(parts) = 4
             THEN IF Float(parts[4]) < 0
                  THEN [err |-> "ValueError", rec |-> None]
                  ELSE [err |-> "",
                        rec |-> NewRecord(Unset, parts[2], parts[3],
                                          Float(parts[4]), parts[1])]
             ELSE [err |-> "RuntimeError", rec |-> None] \* a bare raise

\* MailArchiveRecord.__str__
RecordStr(r) == Join(<<r.folder, r.msgid, r.flags, Repr(r.mtime)>>)

\* MailArchiveRecord.merge_flags
merge_flags(flags, newflags) == JoinSorted(Chars(flags) \cup Chars(newflags))

\* should_update with the flags comparison left out
should_update_mtime_only(r, msg) == r.mtime > msg.mtime

\* MailArchiveRecord.should_update
should_update(r, msg) ==
    (r.mtime > msg.mtime) \/ ~(Chars(msg.flags) \subseteq Chars(r.flags))

----------------------------------------------------------------------------
(* Messages.  A message's headers, date and content are functions of its   *)
(* content hash; its flags and mtime are not.                              *)

Hashes == {"h0", "h1"}
HashOrder == <<"h0", "h1", "h2">>

FlagChoices == {<<"S">>, <<"R", "S">>, <<"T">>}

Msgs == [hash : Hashes, flags : FlagChoices, mtime : 1..MaxMtime]

NoHeaders == [uti |-> "<none>", delivered |-> FALSE, received |-> FALSE]

\* msg.headers, msg.date.year, len(msg.content)
Headers(h) ==
    CASE h = "h1" -> [uti |-> "", delivered |-> TRUE, received |-> TRUE]
      [] h = "h2" -> [uti |-> "", delivered |-> FALSE, received |-> FALSE]
      [] OTHER -> NoHeaders

Year(h) ==
    CASE h = "h1" -> 2020
      [] h = "h2" -> 2021
      [] OTHER -> 1970

ContentLen(h) == IF h = "h0" THEN 0 ELSE 1

\* The name of the archive's maildir.
Root == <<"Archive">>

\* the classifier testing the Trashed flag before the Draft flag
foldername_trash_first(flags, date_year, headers) ==
    IF "T" \in Chars(flags) THEN Root \o <<"/", "Trash">>
    ELSE IF "D" \in Chars(flags) THEN Root \o <<"/", "Drafts">>
    ELSE Root \o <<"/">> \o Pad4(Digits(date_year))

\* MailArchive._folder_for_message: the name it computes
foldername(flags, date_year, headers) ==
    IF "D" \in Chars(flags) THEN Root \o <<"/", "Drafts">>
    ELSE IF "T" \in Chars(flags) THEN Root \o <<"/", "Trash">>
    ELSE LET year == Root \o <<"/">> \o Pad4(Digits(date_year))
         IN  IF headers = NoHeaders THEN year
             ELSE IF headers.uti = "com.apple.mail-note"
                  THEN year \o <<"/", "Notes">>
             ELSE IF headers.uti = "com.apple.mail-todo"
                  THEN year \o <<"/", "Apple Mail To Do">>
             ELSE IF ~(headers.delivered \/ headers.received)
                  THEN year \o <<"/", "Sent">>
             ELSE year

\* the name computed for an archived or source message of content hash h
FolderName(flags, h) == foldername(flags, Year(h), Headers(h))

\* MailArchive._folder_for_message: create and cache the folder
WithFolder(a, name) ==
    IF name \in a.folders THEN a
    ELSE [a EXCEPT !.dirs = @ \cup {name}, !.folders = @ \cup {name}]

----------------------------------------------------------------------------
(* The store, stores.py SQLStore *)

\* SQLStore.get raises KeyError exactly when the key is absent
StoreHas(s, key) == key \in DOMAIN s

\* SQLStore.set: INSERT, and UPDATE when the key exists
StoreSet(s, key, value) ==
    [k \in DOMAIN s \cup {key} |-> IF k = key THEN value ELSE s[k]]

\* SQLStore.delete: DELETE, silent when the key is absent
StoreDelete(s, key) == [k \in DOMAIN s \ {key} |-> s[k]]

\* SQLStore.keys, in the order of the primary key's index
StoreKeys(s) == SelectSeq(HashOrder, LAMBDA k : k \in DOMAIN s)

----------------------------------------------------------------------------
(* The maildir (maildir_lite), as the engine uses it *)

MsgId(i) == <<"m">> \o Digits(i)

\* folder.keys()
FolderKeys(m, name) == {id \in DOMAIN m : m[id].folder = name}

\* msgid in folder
InFolder(m, name, id) == id \in DOMAIN m /\ m[id].folder = name

\* folder.add_message(msg): files a copy under a fresh id
MailAdd(m, id, name, msg) ==
    [k \in DOMAIN m \cup {id} |->
        IF k = id THEN [folder |-> name, hash |-> msg.hash,
                        flags |-> msg.flags, mtime |-> msg.mtime]
        ELSE m[k]]

\* add_flags that replaces the flags instead of adding to them
add_flags_replacing(flags, newflags) == JoinSorted(Chars(newflags))

\* archive_msg.add_flags(flags): the flags of both, in canonical order
add_flags(flags, newflags) == JoinSorted(Chars(flags) \cup Chars(newflags))

\* folder.remove(msgid)
MailRemove(m, id) == [k \in DOMAIN m \ {id} |-> m[k]]

----------------------------------------------------------------------------
(* MailArchive *)

Ar == [store |-> store, mail |-> mail, dirs |-> dirs, folders |-> folders,
       nextId |-> nextId]

SetAr(a) ==
    /\ store' = a.store
    /\ mail' = a.mail
    /\ dirs' = a.dirs
    /\ folders' = a.folders
    /\ nextId' = a.nextId

Out(a, result, calls) == [ar |-> a, result |-> result, calls |-> calls]

\* MailArchive.update_message
update_message(a, msg) ==
    IF ~StoreHas(a.store, msg.hash) THEN Out(a, "KeyError", <<"update">>)
    ELSE
    LET p == ParseRecord(a.store[msg.hash])
        record == p.rec
    IN
    IF p.err # "" THEN Out(a, p.err, <<"update">>)
    ELSE IF ~should_update(record, msg) THEN Out(a, EXISTING, <<"update">>)
    ELSE IF ~(record.folder \in a.folders
              /\ InFolder(a.mail, record.folder, record.msgid))
         THEN Out(a, "KeyError", <<"update">>)
    ELSE
    LET archive_msg == a.mail[record.msgid]
        flags == add_flags(archive_msg.flags, msg.flags)
        earlier == archive_msg.mtime > msg.mtime
        merged == [archive_msg EXCEPT
                      !.flags = flags,
                      !.mtime = IF earlier THEN msg.mtime ELSE @]
        rec2 == [record EXCEPT
                      !.flags = flags,
                      !.mtime = IF earlier THEN msg.mtime ELSE @]
        key == archive_msg.hash
    IN  Out([a EXCEPT
                !.mail = [@ EXCEPT ![record.msgid] = merged],
                !.store = StoreSet(StoreDelete(@, key), key, RecordStr(rec2))],
            UPDATED, <<"update">>)

\* add_message recording the archive's own name as the record's folder
add_message_root_folder(a, msg) ==
    LET name == FolderName(msg.flags, msg.hash)
        a1 == WithFolder(a, name)
        msgid == MsgId(a.nextId)
        record == NewRecord(msg.hash, msgid, msg.flags, msg.mtime, Root)
    IN  Out([a1 EXCEPT
                !.mail = MailAdd(@, msgid, name, msg),
                !.nextId = @ + 1,
                !.store = StoreSet(@, msg.hash, RecordStr(record))],
            ADDED, <<"add">>)

\* MailArchive.add_message
add_message(a, msg) ==
    LET name == FolderName(msg.flags, msg.hash)
        a1 == WithFolder(a, name)
        msgid == MsgId(a.nextId)
        record == NewRecord(msg.hash, msgid, msg.flags, msg.mtime, name)
    IN  Out([a1 EXCEPT
                !.mail = MailAdd(@, msgid, name, msg),
                !.nextId = @ + 1,
                !.store = StoreSet(@, msg.hash, RecordStr(record))],
            ADDED, <<"add">>)

\* script.py process_message
process_message(a, msg, dry_run) ==
    IF ~StoreHas(a.store, msg.hash)
    THEN IF dry_run THEN Out(a, ADDED, <<>>) ELSE add_message(a, msg)
    ELSE
    LET p == ParseRecord(a.store[msg.hash])
    IN
    IF p.err # "" THEN Out(a, p.err, <<>>)
    ELSE IF ~should_update(p.rec, msg) THEN Out(a, EXISTING, <<>>)
    ELSE IF dry_run THEN Out(a, UPDATED, <<>>)
    ELSE LET u == update_message(a, msg)
         IN  IF u.result = "KeyError"
             THEN LET d == add_message(u.ar, msg)
                  IN  Out(d.ar, d.result, <<"update", "add">>)
             ELSE u

----------------------------------------------------------------------------
(* State *)

EmptyMap == [k \in {} |-> <<>>]

NoMsg == [hash |-> "<none>", flags |-> <<>>, mtime |-> 0]

\* the local `record` of check before its first assignment
Unbound == NewRecord("<unbound>", None, <<>>, 0, None)

NoCheck ==
    [repair |-> FALSE, STOP |-> FALSE, keys |-> <<>>, folderq |-> <<>>,
     folder |-> None, msgq |-> <<>>, records |-> EmptyMap, record |-> Unbound,
     errors |-> <<>>, log |-> {}, adds |-> 0, updates |-> 0, deletes |-> 0,
     examined |-> 0, ret |-> -1]

\* nothing is being classified
NoCls == [flags |-> <<>>, year |-> 0, headers |-> NoHeaders, folder |-> None]

\* a store of the given backend, just opened on a new path
NewStore(backend) ==
    [backend |-> backend,
     db |-> EmptyMap,          \* what the file or directory holds
     work |-> EmptyMap,        \* what this connection sees
     inTxn |-> FALSE,          \* between BEGIN TRANSACTION and COMMIT
     begin |-> EmptyMap,       \* history: db when the transaction began
     key_cache |-> {},         \* SymStore._key_cache
     cache_age |-> 0,          \* SymStore._cache_age
     mtime |-> 1,              \* modification time of the symlink directory
     now |-> 1,                \* the clock, in units of the mtime resolution
     op |-> "none", key |-> "", absent |-> FALSE, out |-> "", listed |-> {}]

NoKv == NewStore("none")

\* the command, before start() calls main
NewRun(check, paths) ==
    [phase |-> "start",        \* "start", "check", "import", "exited"
     check |-> check,          \* CHECK_ARCHIVE
     STOP |-> FALSE,           \* the global STOP of script.py
     paths |-> paths,          \* source folders still to import, each a
                               \* sequence of messages still to process
     done |-> <<>>,            \* outcomes of process_message so far
     status |-> -1,            \* the exit status, once exited
     sigCheck |-> FALSE,       \* history: SIGINT arrived during check
     sigImport |-> FALSE,      \* history: SIGINT arrived during import
     began |-> FALSE,          \* history: the import loop was entered
     again |-> FALSE,          \* history: a second SIGINT arrived while the
                               \* first cancellation was still draining
     failed |-> ""]            \* the exception that ended the run

NoRun == NewRun(FALSE, <<>>)

Workers == {"w1", "w2"}

\* a worker after worker_init: its own engine with its own folder cache
NewWorker(fs) ==
    [pc |-> "idle",            \* where the worker is in process_message
     msg |-> NoMsg,            \* the source message it processes
     record |-> Unbound,       \* local `record`
     archive_msg |-> [folder |-> None, hash |-> "", flags |-> <<>>, mtime |-> 0],
     folders |-> fs,           \* its MailArchive.folders
     result |-> ""]            \* what process_message returned last

\* multiprocessing.Pool over the messages of a source folder
NewPool(tasks, fs) ==
    [tasks |-> tasks, w |-> [x \in Workers |-> NewWorker(fs)], finished |-> 0]

NoPool == NewPool(<<>>, {})

\* a value on its way through the codec
NewCodec(origin, record, fields, string) ==
    [origin |-> origin,      \* "record": str() first; "string": parsed as is
     at |-> IF origin = "record" THEN "record" ELSE "string",
     record |-> record,      \* the record serialized
     fields |-> fields,      \* the fields the string was joined from
     string |-> string,      \* the serialized string
     err |-> "",             \* what MailArchiveRecord(string) raised
     back |-> Unbound]       \* the record MailArchiveRecord(string) built

NoCodec == NewCodec("none", Unbound, <<>>, <<>>)

SideIdle ==
    cls = NoCls /\ kv = NoKv /\ run = NoRun /\ pool = NoPool /\ codec = NoCodec

\* MailArchive.__init__ on a path that holds nothing yet
EngineInit ==
    /\ store = EmptyMap
    /\ mail = EmptyMap
    /\ dirs = {}
    /\ folders = {}
    /\ nextId = 1
    /\ pc = "idle"
    /\ chk = NoCheck
    /\ last = [op |-> "none", msg |-> NoMsg, dry |-> FALSE,
               result |-> "<none>", calls |-> <<>>]
    /\ ops = 0
    /\ ext = 0
    /\ hist = [pristine |-> TRUE, seen |-> {}, afterRepair |-> FALSE,
               interrupts |-> 0]

Init == EngineInit /\ SideIdle

CanOperate == pc = "idle" /\ ops < MaxOps

\* the maildir hands out at most MaxMsgs message ids
Finish(op, msg, dry, o) ==
    /\ o.ar.nextId <= MaxMsgs + 1
    /\ SetAr(o.ar)
    /\ last' = [op |-> op, msg |-> msg, dry |-> dry, result |-> o.result,
                calls |-> o.calls]
    /\ ops' = ops + 1
    /\ chk' = NoCheck
    /\ UNCHANGED <<pc, ext, side>>

----------------------------------------------------------------------------
(* The import driver and the engine's public methods *)

\* script.py main: one message handed to process_message
ProcessMessage(msg, dry_run) ==
    /\ CanOperate
    /\ \E o \in {process_message(Ar, msg, dry_run)} :
          Finish("process", msg, dry_run, o)
    /\ hist' = [hist EXCEPT
                  !.seen = IF hist.pristine /\ ~dry_run
                           THEN @ \cup {<<msg.hash, msg.flags>>} ELSE @,
                  !.afterRepair = @ /\ dry_run]

\* MailArchive.add_message, called directly
AddMessage(msg) ==
    /\ CanOperate
    /\ \E o \in {add_message(Ar, msg)} : Finish("add", msg, FALSE, o)
    /\ hist' = [hist EXCEPT !.pristine = FALSE, !.seen = {},
                            !.afterRepair = FALSE]

\* MailArchive.update_message, called directly
UpdateMessage(msg) ==
    /\ CanOperate
    /\ \E o \in {update_message(Ar, msg)} : Finish("update", msg, FALSE, o)
    /\ hist' = [hist EXCEPT !.pristine = FALSE, !.seen = {},
                            !.afterRepair = FALSE]

----------------------------------------------------------------------------
(* The archive as other programs leave it.  The archive is a maildir that  *)
(* mail clients read and write, and a store file; check exists to find     *)
(* what they changed.  The engine is opened again afterwards.              *)

CanModify == pc = "idle" /\ ext < MaxExt

Modified ==
    /\ ext' = ext + 1
    /\ folders' = dirs'
    /\ last' = [op |-> "ext", msg |-> NoMsg, dry |-> FALSE,
                result |-> "<none>", calls |-> <<>>]
    /\ hist' = [hist EXCEPT !.pristine = FALSE, !.seen = {},
                            !.afterRepair = FALSE]
    /\ chk' = NoCheck
    /\ UNCHANGED <<pc, ops, side>>

\* a client changes the flags of a message, or its file's mtime
ExtChange(id, flags, mtime) ==
    /\ CanModify
    /\ id \in DOMAIN mail
    /\ <<flags, mtime>> # <<mail[id].flags, mail[id].mtime>>
    /\ mail' = [mail EXCEPT ![id].flags = flags, ![id].mtime = mtime]
    /\ UNCHANGED <<store, dirs, nextId>>
    /\ Modified

\* a client moves a message to another folder
ExtMove(id, name) ==
    /\ CanModify
    /\ id \in DOMAIN mail
    /\ name \in dirs \ {mail[id].folder}
    /\ mail' = [mail EXCEPT ![id].folder = name]
    /\ UNCHANGED <<store, dirs, nextId>>
    /\ Modified

\* a client deletes a message
ExtRemove(id) ==
    /\ CanModify
    /\ id \in DOMAIN mail
    /\ mail' = MailRemove(mail, id)
    /\ UNCHANGED <<store, dirs, nextId>>
    /\ Modified

\* a message is delivered or copied into a folder behind the engine's back
ExtDeliver(msg, name) ==
    /\ CanModify
    /\ nextId <= MaxMsgs
    /\ name \in dirs
    /\ mail' = MailAdd(mail, MsgId(nextId), name, msg)
    /\ nextId' = nextId + 1
    /\ UNCHANGED <<store, dirs>>
    /\ Modified

\* the store file holds a damaged value, or has lost a key
ExtStore(key, kind) ==
    /\ CanModify
    /\ key \in DOMAIN store
    /\ LET p == ParseRecord(store[key])
       IN  store' =
             CASE kind = "lost" -> StoreDelete(store, key)
               [] kind = "empty" -> StoreSet(store, key, <<>>)
               [] kind = "fields" -> StoreSet(store, key, <<"garbage">>)
               [] OTHER ->
                    IF p.err = "" /\ p.rec.folder # None
                    THEN StoreSet(store, key,
                                  RecordStr([p.rec EXCEPT !.msgid = <<>>]))
                    ELSE store
    /\ store' # store
    /\ UNCHANGED <<mail, dirs, nextId>>
    /\ Modified

----------------------------------------------------------------------------
(* MailArchive.check *)

Finding(id, what) == <<id, what>>

\* leaving check: by return len(errors), or by an exception
Leave(c, exc) ==
    /\ pc' = "idle"
    /\ chk' = [c EXCEPT !.ret = IF exc = "" THEN Len(c.errors) ELSE -1]
    /\ last' = [op |-> "check", msg |-> NoMsg, dry |-> FALSE,
                result |-> IF exc = "" THEN "returned" ELSE exc,
                calls |-> <<>>]
    /\ hist' = [hist EXCEPT
                  !.afterRepair = c.repair /\ ~c.STOP /\ exc = ""]
    /\ UNCHANGED <<ops, ext, side>>

Stay(at, c) ==
    /\ pc' = at
    /\ chk' = c
    /\ UNCHANGED <<last, ops, ext, hist, side>>

\* lines 163-195: the locals, the cancel handler, the keys to visit
CheckStart(repair) ==
    /\ pc = "idle"
    /\ ops < MaxOps
    /\ ops' = ops + 1
    /\ pc' = "A"
    /\ chk' = [NoCheck EXCEPT !.repair = repair, !.keys = StoreKeys(store)]
    /\ hist' = [hist EXCEPT !.pristine = FALSE, !.seen = {}]
    /\ last' = [op |-> "checking", msg |-> NoMsg, dry |-> FALSE,
                result |-> "<none>", calls |-> <<>>]
    /\ UNCHANGED <<store, mail, dirs, folders, nextId, ext, side>>

\* CancelHandler.__call__: SIGINT while check runs
Interrupt ==
    /\ pc \in {"A", "B"}
    /\ ~chk.STOP
    /\ hist.interrupts < MaxInterrupts
    /\ chk' = [chk EXCEPT !.STOP = TRUE]
    /\ hist' = [hist EXCEPT !.interrupts = @ + 1]
    /\ UNCHANGED <<store, mail, dirs, folders, nextId, pc, last, ops, ext, side>>

\* lines 195-260: one key of phase A
CheckRecord ==
    /\ pc = "A"
    /\ ~chk.STOP
    /\ chk.keys # <<>>
    /\ LET key == Head(chk.keys)
           p == ParseRecord(store[key])
           record == p.rec
           c0 == [chk EXCEPT !.keys = Tail(@), !.examined = @ + 1,
                             !.record = IF p.err = "" THEN record ELSE @]
       IN
       IF p.err # ""
       THEN UNCHANGED <<store, mail, dirs, folders, nextId>> /\ Leave(c0, p.err)
       ELSE
       LET empty == record.msgid = None \/ Len(record.msgid) = 0
       IN
       IF empty /\ record.content_hash = Unset
       THEN /\ UNCHANGED <<store, mail, dirs, folders, nextId>>
            /\ Leave(c0, "AttributeError")
       ELSE
       LET e1 == IF empty THEN <<Finding(None, "empty msgid")>> ELSE <<>>
           found == record.folder \in folders
                    /\ InFolder(mail, record.folder, record.msgid)
           e2 == IF found THEN <<>>
                 ELSE <<Finding(record.msgid, "invalid msgid")>>
           delete == empty \/ ~found
           badflags == found /\ ~(Chars(mail[record.msgid].flags)
                                    \subseteq Chars(record.flags))
           e3 == IF badflags THEN <<Finding(record.msgid, "invalid flags")>>
                 ELSE <<>>
           r1 == IF badflags
                 THEN [record EXCEPT !.flags = merge_flags(@, record.flags)]
                 ELSE record
           badmtime == found /\ mail[record.msgid].mtime < r1.mtime
           e4 == IF badmtime THEN <<Finding(record.msgid, "invalid mtime")>>
                 ELSE <<>>
           r2 == IF badmtime
                 THEN [r1 EXCEPT !.mtime = mail[record.msgid].mtime]
                 ELSE r1
           update == badflags \/ badmtime
           c1 == [c0 EXCEPT
                    !.record = r2,
                    !.errors = @ \o e1 \o e2 \o e3 \o e4,
                    !.deletes = IF chk.repair /\ delete THEN @ + 1 ELSE @,
                    !.updates = IF chk.repair /\ ~delete /\ update
                                THEN @ + 1 ELSE @]
       IN  /\ store' = IF ~chk.repair THEN store
                       ELSE IF delete THEN StoreDelete(store, key)
                       ELSE IF update THEN StoreSet(store, key, RecordStr(r2))
                       ELSE store
           /\ UNCHANGED <<mail, dirs, folders, nextId>>
           /\ Stay("A", c1)

\* lines 268-271: records[record.msgid] = record, for every key in turn
RECURSIVE CacheRecords(_, _, _)
CacheRecords(s, keys, acc) ==
    IF keys = <<>> \/ acc.err # "" THEN acc
    ELSE LET p == ParseRecord(s[Head(keys)])
         IN  CacheRecords(s, Tail(keys),
               IF p.err # "" THEN [acc EXCEPT !.err = p.err]
               ELSE [acc EXCEPT
                       !.record = p.rec,
                       !.records = [k \in DOMAIN @ \cup {p.rec.msgid} |->
                                      IF k = p.rec.msgid THEN p.rec ELSE @[k]]])

\* phase A is over, and phase B starts whether cancelled or not
EndPhaseA_ignoring_STOP ==
    /\ pc = "A"
    /\ chk.STOP \/ chk.keys = <<>>
    /\ UNCHANGED <<store, mail, dirs, folders, nextId>>
    /\ LET cached == CacheRecords(store, StoreKeys(store),
                         [err |-> "", record |-> chk.record,
                          records |-> EmptyMap])
           c1 == [chk EXCEPT !.record = cached.record,
                             !.records = cached.records,
                             !.folderq = Sorted(dirs)]
       IN  IF cached.err # "" THEN Leave(c1, cached.err)
           ELSE Stay("B", c1)

\* lines 195-197, 261-276: phase A is over; phase B starts unless cancelled
EndPhaseA ==
    /\ pc = "A"
    /\ chk.STOP \/ chk.keys = <<>>
    /\ UNCHANGED <<store, mail, dirs, folders, nextId>>
    /\ IF chk.STOP THEN Leave(chk, "")
       ELSE LET cached == CacheRecords(store, StoreKeys(store),
                            [err |-> "", record |-> chk.record,
                             records |-> EmptyMap])
                c1 == [chk EXCEPT !.record = cached.record,
                                  !.records = cached.records,
                                  !.folderq = Sorted(dirs)]
            IN  IF cached.err # "" THEN Leave(c1, cached.err)
                ELSE Stay("B", c1)

\* lines 276-289: the next folder of phase B and its sorted keys
NextFolder ==
    /\ pc = "B"
    /\ ~chk.STOP
    /\ chk.msgq = <<>>
    /\ chk.folderq # <<>>
    /\ UNCHANGED <<store, mail, dirs, folders, nextId>>
    /\ Stay("B", [chk EXCEPT
                    !.folder = Head(chk.folderq),
                    !.folderq = Tail(@),
                    !.msgq = Sorted(FolderKeys(mail, Head(chk.folderq)))])

\* lines 298-327: a message whose id no record names
\* [ar, c, record, exc, skip]
Untracked(a, c, msgid, msg) ==
    LET c1 == [c EXCEPT !.errors = Append(@,
                 Finding(msgid, "message in maildir is not in the archive"))]
        m == [hash |-> msg.hash, flags |-> msg.flags, mtime |-> msg.mtime]
    IN
    IF ~c.repair
    THEN [ar |-> a, c |-> [c1 EXCEPT !.log = @ \cup {<<msgid, "unknown msgid">>}],
          exc |-> "", skip |-> FALSE]
    ELSE IF ContentLen(msg.hash) = 0
    THEN [ar |-> [a EXCEPT !.mail = MailRemove(@, msgid)],
          c |-> [c1 EXCEPT !.deletes = @ + 1],
          exc |-> "", skip |-> TRUE]
    ELSE IF StoreHas(a.store, msg.hash)
    THEN LET u == update_message(a, m)
             merged == u.result \in {UPDATED, EXISTING}
             a1 == [u.ar EXCEPT !.mail = MailRemove(@, msgid)]
             p == ParseRecord(a1.store[msg.hash])
         IN  IF ~merged
             THEN [ar |-> u.ar, c |-> c1, exc |-> u.result, skip |-> FALSE]
             ELSE [ar |-> a1,
                   c |-> [c1 EXCEPT !.deletes = @ + 1, !.updates = @ + 1,
                                    !.record = p.rec],
                   exc |-> p.err, skip |-> FALSE]
    ELSE LET record == NewRecord(msg.hash, msgid, msg.flags, msg.mtime,
                                 msg.folder)
         IN  [ar |-> [a EXCEPT !.store = StoreSet(@, msg.hash, RecordStr(record))],
              c |-> [c1 EXCEPT
                       !.adds = @ + 1,
                       !.record = record,
                       !.records = [k \in DOMAIN @ \cup {<<msg.hash>>} |->
                                      IF k = <<msg.hash>> THEN record ELSE @[k]]],
              exc |-> "", skip |-> FALSE]

\* the record object that local `record` names is also an entry of `records`
Alias(c, msgid, tracked, hash) ==
    IF tracked THEN {msgid}
    ELSE IF c.repair /\ <<hash>> \in DOMAIN c.records
            /\ c.records[<<hash>>] = c.record THEN {<<hash>>}
    ELSE {}

\* the assignment record.folder = msg_folder.name left out
SetFolder_skipped(c, alias, name) == c

\* lines 341, 348: record.folder = msg_folder.name
SetFolder(c, alias, name) ==
    [c EXCEPT !.record = [@ EXCEPT !.folder = name],
              !.records = [k \in DOMAIN @ |->
                             IF k \in alias THEN [@[k] EXCEPT !.folder = name]
                             ELSE @[k]]]

\* lines 331-349: the canonical folder of the message against where it is,
\* and against where the record says it is
\* [ar, c, exc]
FolderChecks(a, c, msgid, msg, alias) ==
    LET name == FolderName(msg.flags, msg.hash)
        a1 == WithFolder(a, name)
        misplaced == msg.folder # name
        c1 == IF misplaced
              THEN [c EXCEPT !.log = @ \cup {<<msgid, "misplaced">>}] ELSE c
    IN
    IF misplaced /\ c.repair /\ ~InFolder(a1.mail, msg.folder, msgid)
    THEN [ar |-> a1, c |-> c1, exc |-> "KeyError"]
    ELSE IF c.record = Unbound /\ ~(misplaced /\ c.repair)
    THEN [ar |-> a1, c |-> c1, exc |-> "UnboundLocalError"]
    ELSE
    LET moved == misplaced /\ c.repair
        c2 == IF moved THEN SetFolder(c1, alias, name) ELSE c1
        a2 == IF moved
              THEN [a1 EXCEPT
                      !.mail = [@ EXCEPT ![msgid].folder = name],
                      !.store = StoreSet(@, msg.hash, RecordStr(c2.record))]
              ELSE a1
        drift == c2.record.folder # name
        c3 == IF drift
              THEN [c2 EXCEPT !.log = @ \cup {<<msgid, "record folder">>}]
              ELSE c2
        fixed == drift /\ c.repair
        c4 == IF fixed THEN SetFolder(c3, alias, name) ELSE c3
        a3 == IF fixed
              THEN [a2 EXCEPT
                      !.store = StoreSet(@, msg.hash, RecordStr(c4.record))]
              ELSE a2
    IN  [ar |-> a3, c |-> c4, exc |-> ""]

\* lines 289-349: one message of phase B
CheckMsg ==
    /\ pc = "B"
    /\ ~chk.STOP
    /\ chk.msgq # <<>>
    /\ LET msgid == Head(chk.msgq)
           c0 == [chk EXCEPT !.msgq = Tail(@), !.examined = @ + 1]
       IN
       IF ~InFolder(mail, chk.folder, msgid)
       THEN UNCHANGED <<store, mail, dirs, folders, nextId>>
            /\ Leave(c0, "KeyError")
       ELSE
       LET msg == mail[msgid]
           tracked == msgid \in DOMAIN chk.records
       IN  \E u \in {IF tracked
                     THEN [ar |-> Ar, c |-> [c0 EXCEPT !.record = chk.records[msgid]],
                           exc |-> "", skip |-> FALSE]
                     ELSE Untracked(Ar, c0, msgid, msg)} :
           \E f \in {IF u.exc # "" \/ u.skip
                     THEN [ar |-> u.ar, c |-> u.c, exc |-> u.exc]
                     ELSE FolderChecks(u.ar, u.c, msgid, msg,
                                       Alias(u.c, msgid, tracked, msg.hash))} :
              /\ SetAr(f.ar)
              /\ IF f.exc # "" THEN Leave(f.c, f.exc) ELSE Stay("B", f.c)

\* lines 276-278, 289-291, 351-357: the loops end, check returns
EndPhaseB ==
    /\ pc = "B"
    /\ chk.STOP \/ (chk.msgq = <<>> /\ chk.folderq = <<>>)
    /\ UNCHANGED <<store, mail, dirs, folders, nextId>>
    /\ Leave(chk, "")

Next ==
    \/ \E msg \in Msgs, dry_run \in BOOLEAN : ProcessMessage(msg, dry_run)
    \/ \E msg \in Msgs : AddMessage(msg)
    \/ \E msg \in Msgs : UpdateMessage(msg)
    \/ \E id \in DOMAIN mail, flags \in FlagChoices, mtime \in 1..MaxMtime :
          ExtChange(id, flags, mtime)
    \/ \E id \in DOMAIN mail, name \in dirs : ExtMove(id, name)
    \/ \E id \in DOMAIN mail : ExtRemove(id)
    \/ \E msg \in Msgs, name \in dirs : ExtDeliver(msg, name)
    \/ \E key \in DOMAIN store, kind \in {"lost", "empty", "fields", "msgid"} :
          ExtStore(key, kind)
    \/ \E repair \in BOOLEAN : CheckStart(repair)
    \/ Interrupt
    \/ CheckRecord
    \/ EndPhaseA
    \/ NextFolder
    \/ CheckMsg
    \/ EndPhaseB

Spec == Init /\ [][Next]_vars

----------------------------------------------------------------------------
(* The folder classifier on its own: every combination of the flags, the   *)
(* date and the headers it looks at.                                       *)

ClsFlags ==
    {<<>>, <<"D">>, <<"S">>, <<"T">>, <<"D", "S">>, <<"D", "T">>,
     <<"S", "T">>, <<"D", "S", "T">>}

ClsYears == {987, 2020, 2021}

\* no headers at all, or the three headers the classifier reads
ClsHeaders ==
    {NoHeaders} \cup
    [uti : {"", "com.apple.mail-note", "com.apple.mail-todo"},
     delivered : BOOLEAN, received : BOOLEAN]

InitClassify ==
    /\ EngineInit
    /\ cls \in [flags : ClsFlags, year : ClsYears, headers : ClsHeaders,
                folder : {None}]
    /\ kv = NoKv
    /\ run = NoRun
    /\ pool = NoPool
    /\ codec = NoCodec

\* self._folder_for_message(msg)
Classify ==
    /\ cls.folder = None
    /\ cls' = [cls EXCEPT !.folder = foldername(cls.flags, cls.year, cls.headers)]
    /\ UNCHANGED <<engine, kv, run, pool, codec>>

NextClassify == Classify

SpecClassify == InitClassify /\ [][NextClassify]_vars

----------------------------------------------------------------------------
(* The store backends of stores.py on their own: DBMStore, SQLStore and    *)
(* SymStore under get, set, delete, keys, `in`, and `with`.                *)

Backends == {"dbm", "sql", "sym"}
Keys == {"k1", "k2"}
Values == {"a", "b"}

InitStores ==
    /\ EngineInit
    /\ cls = NoCls
    /\ run = NoRun
    /\ pool = NoPool
    /\ codec = NoCodec
    /\ \E b \in Backends : kv = NewStore(b)

\* what the operation did and answered
Did(k, op, key, out) ==
    [k EXCEPT !.op = op, !.key = key, !.out = out,
              !.absent = key \notin DOMAIN kv.work, !.listed = {}]

\* a write reaches the file at once unless a transaction is open
Written(k, work) ==
    [k EXCEPT !.work = work, !.db = IF k.inTxn THEN @ ELSE work]

\* DBMStore.get, SQLStore.get, SymStore.get
get(k, key) ==
    IF key \in DOMAIN k.work THEN k.work[key]
    ELSE IF k.backend = "sym" THEN "None"
    ELSE "KeyError"

\* Store.__contains__
contains(k, key) == get(k, key) \notin {"None", "KeyError"}

\* DBMStore.set, SQLStore.set, SymStore.set
set(k, key, value) ==
    IF k.backend = "sym"
    THEN IF key \in DOMAIN k.work THEN Did(k, "set", key, "KeyError")
         ELSE Did([Written(k, StoreSet(k.work, key, value)) EXCEPT !.mtime = k.now],
                  "set", key, key)
    ELSE Did(Written(k, StoreSet(k.work, key, value)), "set", key, "None")

\* DBMStore.delete, SQLStore.delete, SymStore.delete
delete(k, key) ==
    IF key \notin DOMAIN k.work
    THEN Did(k, "delete", key, IF k.backend = "sql" THEN "None" ELSE "KeyError")
    ELSE Did([Written(k, StoreDelete(k.work, key)) EXCEPT
                !.mtime = IF k.backend = "sym" THEN k.now ELSE @],
             "delete", key, "None")

\* DBMStore.keys, SQLStore.keys, SymStore.keys
keys(k) ==
    IF k.backend = "sym"
    THEN LET fresh == k.mtime > k.cache_age
             k1 == IF fresh
                   THEN [k EXCEPT !.key_cache = DOMAIN k.work, !.cache_age = k.mtime]
                   ELSE k
         IN  [Did(k1, "keys", "", "") EXCEPT !.listed = k1.key_cache]
    ELSE [Did(k, "keys", "", "") EXCEPT !.listed = DOMAIN k.work]

Get(key) == kv' = Did(kv, "get", key, get(kv, key)) /\ UNCHANGED <<engine, cls, run, pool, codec>>

Contains(key) ==
    /\ kv' = Did(kv, "in", key, IF contains(kv, key) THEN "True" ELSE "False")
    /\ UNCHANGED <<engine, cls, run, pool, codec>>

Set(key, value) == kv' = set(kv, key, value) /\ UNCHANGED <<engine, cls, run, pool, codec>>

Delete(key) == kv' = delete(kv, key) /\ UNCHANGED <<engine, cls, run, pool, codec>>

ListKeys == kv' = keys(kv) /\ UNCHANGED <<engine, cls, run, pool, codec>>

\* `with store as transaction:` entered; only SQLStore defines __enter__
Enter ==
    /\ ~kv.inTxn
    /\ kv' = IF kv.backend = "sql"
             THEN [Did(kv, "enter", "", "") EXCEPT !.inTxn = TRUE, !.begin = kv.db]
             ELSE Did(kv, "enter", "", "AttributeError")
    /\ UNCHANGED <<engine, cls, run, pool, codec>>

\* SQLStore.__exit__: the block ended, normally or by an exception
Exit(failed) ==
    /\ kv.inTxn
    /\ kv' = [Did(kv, IF failed THEN "exit on exception" ELSE "exit", "", "")
                EXCEPT !.inTxn = FALSE, !.db = kv.work]
    /\ UNCHANGED <<engine, cls, run, pool, codec>>

\* the clock passes the resolution of the directory's mtime
Tick ==
    /\ kv.now < MaxClock
    /\ kv' = [kv EXCEPT !.now = @ + 1]
    /\ UNCHANGED <<engine, cls, run, pool, codec>>

NextStores ==
    \/ \E key \in Keys : Get(key)
    \/ \E key \in Keys : Contains(key)
    \/ \E key \in Keys, value \in Values : Set(key, value)
    \/ \E key \in Keys : Delete(key)
    \/ ListKeys
    \/ Enter
    \/ \E failed \in BOOLEAN : Exit(failed)
    \/ Tick

SpecStores == InitStores /\ [][NextStores]_vars

----------------------------------------------------------------------------
(* One run of the command: start() installs the SIGINT handler and calls   *)
(* main, which checks the archive with repair and then imports the source  *)
(* folders one message after another.                                      *)

\* the messages a source folder may hold
SrcMsgs == {m \in Msgs : m.mtime = 1 /\ m.flags \in {<<"S">>, <<"R", "S">>}}

\* maildir_paths: one folder of two messages, or two folders of one
Sources ==
    {<<<<m1, m2>>>> : m1 \in SrcMsgs, m2 \in SrcMsgs} \cup
    {<<<<m1>>, <<m2>>>> : m1 \in SrcMsgs, m2 \in SrcMsgs}

Archive0 ==
    [store |-> EmptyMap, mail |-> EmptyMap, dirs |-> {}, folders |-> {},
     nextId |-> 1]

\* the archive the run finds: new, or holding one message from an earlier
\* run, its record intact or no longer made of four fields
StartArchives ==
    LET m == [hash |-> "h0", flags |-> <<"S">>, mtime |-> 1]
        a1 == add_message(Archive0, m).ar
    IN  {Archive0, a1, [a1 EXCEPT !.store = StoreSet(@, "h0", <<"garbage">>)]}

InitScript ==
    /\ \E a \in StartArchives :
          /\ store = a.store
          /\ mail = a.mail
          /\ dirs = a.dirs
          /\ folders = a.folders
          /\ nextId = a.nextId
    /\ pc = "idle"
    /\ chk = NoCheck
    /\ last = [op |-> "none", msg |-> NoMsg, dry |-> FALSE,
               result |-> "<none>", calls |-> <<>>]
    /\ ops = 0
    /\ ext = 0
    /\ hist = [pristine |-> FALSE, seen |-> {}, afterRepair |-> FALSE,
               interrupts |-> 0]
    /\ cls = NoCls
    /\ kv = NoKv
    /\ pool = NoPool
    /\ codec = NoCodec
    /\ \E check \in BOOLEAN, paths \in Sources : run = NewRun(check, paths)

\* sys.exit(status), or the uncaught exception that ends the process
Exited(r, status, exc) ==
    [r EXCEPT !.phase = "exited", !.status = status, !.failed = exc]

\* script.py 214-218: the archive is opened; check or not
Main ==
    /\ run.phase = "start"
    /\ run' = [run EXCEPT !.phase = IF run.check THEN "check" ELSE "import",
                          !.began = ~run.check]
    /\ UNCHANGED <<engine, cls, kv, pool, codec>>

\* script.py 216: archive.check(True) is called
MainCheck ==
    /\ run.phase = "check"
    /\ last.op = "none"
    /\ CheckStart(TRUE)

\* a step of the running check; SIGINT goes to its CancelHandler
MainChecking ==
    /\ run.phase = "check"
    /\ \/ Interrupt
       \/ CheckRecord
       \/ EndPhaseA
       \/ NextFolder
       \/ CheckMsg
       \/ EndPhaseB

\* mailarchive.py 19-20: SIGINT again while the cancelled check winds up;
\* CancelHandler.__call__ sets its STOP once more
SigintAgain ==
    /\ run.phase = "check"
    /\ pc \in {"A", "B"}
    /\ chk.STOP
    /\ ~run.again
    /\ chk' = [chk EXCEPT !.STOP = TRUE]
    /\ run' = [run EXCEPT !.again = TRUE]
    /\ UNCHANGED <<store, mail, dirs, folders, nextId, pc, last, ops, ext,
                   hist, cls, kv, pool, codec>>

\* script.py 216-226: check has returned (its value is dropped), or raised
MainChecked ==
    /\ run.phase = "check"
    /\ pc = "idle"
    /\ last.op = "check"
    /\ run' = IF last.result = "returned"
              THEN [run EXCEPT !.phase = "import", !.began = TRUE,
                               !.sigCheck = chk.STOP]
              ELSE Exited([run EXCEPT !.sigCheck = chk.STOP], 1, last.result)
    /\ UNCHANGED <<engine, cls, kv, pool, codec>>

\* script.py 225-226, 269: a source folder has no message left
NextPath ==
    /\ run.phase = "import"
    /\ ~run.STOP
    /\ run.paths # <<>>
    /\ Head(run.paths) = <<>>
    /\ run' = [run EXCEPT !.paths = Tail(@)]
    /\ UNCHANGED <<engine, cls, kv, pool, codec>>

\* script.py 263-266: process_message on the next message of the folder
ImportMessage ==
    /\ run.phase = "import"
    /\ ~run.STOP
    /\ run.paths # <<>>
    /\ Head(run.paths) # <<>>
    /\ \E o \in {process_message(Ar, Head(Head(run.paths)), FALSE)} :
          \E r \in {[run EXCEPT !.paths = <<Tail(Head(@))>> \o Tail(@),
                                !.done = Append(@, o.result)]} :
             /\ SetAr(o.ar)
             /\ run' = IF o.result \in {ADDED, UPDATED, EXISTING} THEN r
                       ELSE Exited(r, 1, o.result)
    /\ UNCHANGED <<pc, chk, last, ops, ext, hist, cls, kv, pool, codec>>

\* script.py 277-283: signal_handler, installed by start()
Sigint ==
    /\ run.phase = "import"
    /\ run' = IF run.STOP
              THEN Exited([run EXCEPT !.again = TRUE], 143, "SIGTERM")
              ELSE [run EXCEPT !.STOP = TRUE, !.sigImport = TRUE]
    /\ UNCHANGED <<engine, cls, kv, pool, codec>>

\* script.py 271, 291: the loops are left; return 1 if STOP, else None
MainReturns ==
    /\ run.phase = "import"
    /\ run.STOP \/ run.paths = <<>>
    /\ run' = Exited(run, IF run.STOP THEN 1 ELSE 0, "")
    /\ UNCHANGED <<engine, cls, kv, pool, codec>>

NextScript ==
    \/ Main
    \/ MainCheck
    \/ MainChecking
    \/ SigintAgain
    \/ MainChecked
    \/ NextPath
    \/ ImportMessage
    \/ Sigint
    \/ MainReturns

SpecScript == InitScript /\ [][NextScript]_vars

----------------------------------------------------------------------------
(* The record codec on its own: MailArchiveRecord.__str__ and              *)
(* MailArchiveRecord(string), on records and on strings of any number of   *)
(* fields.                                                                 *)

CodecFolders ==
    {<<"Archive">>, <<"Archive", "/", "Trash">>, <<"Archive", ":">>,
     <<":", "Archive">>}
CodecMsgids == {<<"m", "1">>, <<"m", ":", "1">>, <<"m", ":">>, <<":", "m">>}
CodecFlags == {<<>>, <<"S">>, <<"R", "S">>}

\* what a field of a raw string may be
RawFields == {<<>>, <<"S">>, <<"1", ".", "0">>}

InitCodec ==
    /\ EngineInit
    /\ cls = NoCls
    /\ kv = NoKv
    /\ run = NoRun
    /\ pool = NoPool
    /\ \/ \E folder \in CodecFolders, msgid \in CodecMsgids,
             flags \in CodecFlags, mtime \in 0..MaxMtime :
            codec = NewCodec("record",
                      NewRecord("h0", msgid, flags, mtime, folder), <<>>, <<>>)
       \/ \E k \in 1..MaxFields : \E fields \in [1..k -> RawFields] :
            codec = NewCodec("string", Unbound, fields, Join(fields))

\* str(record)
Str ==
    /\ codec.at = "record"
    /\ codec' = [codec EXCEPT !.at = "string", !.string = RecordStr(codec.record)]
    /\ UNCHANGED <<engine, cls, kv, run, pool>>

\* MailArchiveRecord(string)
Parse ==
    /\ codec.at = "string"
    /\ codec' = [codec EXCEPT
                   !.at = "parsed",
                   !.err = ParseRecord(codec.string).err,
                   !.back = IF ParseRecord(codec.string).err = ""
                            THEN ParseRecord(codec.string).rec ELSE Unbound]
    /\ UNCHANGED <<engine, cls, kv, run, pool>>

NextCodec == Str \/ Parse

SpecCodec == InitCodec /\ [][NextCodec]_vars

----------------------------------------------------------------------------
(* The import with a worker pool: each worker runs process_message on the  *)
(* messages it is handed, with its own engine over the one archive.  A     *)
(* step is one access to the store or to the maildir.                      *)

\* source messages that share a content hash
PoolMsgs == {m \in Msgs : m.hash = "h1"}

InitPool ==
    /\ \E a \in {Archive0,
                 add_message(Archive0, [hash |-> "h1", flags |-> <<"S">>,
                                        mtime |-> 2]).ar} :
          /\ store = a.store
          /\ mail = a.mail
          /\ dirs = a.dirs
          /\ folders = a.folders
          /\ nextId = a.nextId
          /\ \E m1 \in PoolMsgs, m2 \in PoolMsgs :
                pool = NewPool(<<m1, m2>>, a.dirs)
    /\ pc = "idle"
    /\ chk = NoCheck
    /\ last = [op |-> "none", msg |-> NoMsg, dry |-> FALSE,
               result |-> "<none>", calls |-> <<>>]
    /\ ops = 0
    /\ ext = 0
    /\ hist = [pristine |-> FALSE, seen |-> {}, afterRepair |-> FALSE,
               interrupts |-> 0]
    /\ cls = NoCls
    /\ kv = NoKv
    /\ run = NoRun
    /\ codec = NoCodec

\* what a pool step leaves alone besides the archive
aside == <<folders, pc, chk, last, ops, ext, hist, cls, kv, run, codec>>

\* the worker goes on with these locals
Goes(w, l) == pool' = [pool EXCEPT !.w[w] = l]

\* process_message returns
Returns(w, l, result) ==
    pool' = [pool EXCEPT !.w[w] = [l EXCEPT !.pc = "idle", !.result = result],
                         !.finished = @ + 1]

\* archive[msg], then should_update: script.py 40-41, mailarchive.py 136-140
Fetched(w, next) ==
    LET l == pool.w[w]
    IN  IF ~StoreHas(store, l.msg.hash) THEN Goes(w, [l EXCEPT !.pc = "file"])
        ELSE LET r == ParseRecord(store[l.msg.hash]).rec
             IN  IF ~should_update(r, l.msg) THEN Returns(w, l, EXISTING)
                 ELSE Goes(w, [l EXCEPT !.pc = next, !.record = r])

\* pool.imap hands the next message to a free worker
Take(w) ==
    /\ pool.w[w].pc = "idle"
    /\ pool.tasks # <<>>
    /\ pool' = [pool EXCEPT !.tasks = Tail(@),
                            !.w[w] = [@ EXCEPT !.pc = "lookup",
                                               !.msg = Head(pool.tasks)]]
    /\ UNCHANGED <<store, mail, dirs, nextId, aside>>

\* script.py 40-41: record = archive[msg]; record.should_update(msg)
Lookup(w) ==
    /\ pool.w[w].pc = "lookup"
    /\ Fetched(w, "refetch")
    /\ UNCHANGED <<store, mail, dirs, nextId, aside>>

\* mailarchive.py 136-140: update_message fetches the record again
Refetch(w) ==
    /\ pool.w[w].pc = "refetch"
    /\ Fetched(w, "load")
    /\ UNCHANGED <<store, mail, dirs, nextId, aside>>

\* mailarchive.py 143-151: the archived copy is read and merged in memory;
\* a KeyError here is caught by process_message, which then adds
Load(w) ==
    /\ pool.w[w].pc = "load"
    /\ LET l == pool.w[w]
           r == l.record
       IN  IF ~(r.folder \in l.folders /\ InFolder(mail, r.folder, r.msgid))
           THEN Goes(w, [l EXCEPT !.pc = "file"])
           ELSE LET archive_msg == mail[r.msgid]
                    flags == add_flags(archive_msg.flags, l.msg.flags)
                    earlier == archive_msg.mtime > l.msg.mtime
                IN  Goes(w, [l EXCEPT
                       !.pc = "update",
                       !.archive_msg = [archive_msg EXCEPT
                            !.flags = flags,
                            !.mtime = IF earlier THEN l.msg.mtime ELSE @],
                       !.record = [r EXCEPT
                            !.flags = flags,
                            !.mtime = IF earlier THEN l.msg.mtime ELSE @]])
    /\ UNCHANGED <<store, mail, dirs, nextId, aside>>

\* mailarchive.py 155: the merged copy is written back
UpdateCopy(w) ==
    /\ pool.w[w].pc = "update"
    /\ mail' = [mail EXCEPT ![pool.w[w].record.msgid] = pool.w[w].archive_msg]
    /\ Goes(w, [pool.w[w] EXCEPT !.pc = "del"])
    /\ UNCHANGED <<store, dirs, nextId, aside>>

\* mailarchive.py 158: del self.store[archive_msg.content_hash]
DeleteRecord(w) ==
    /\ pool.w[w].pc = "del"
    /\ store' = StoreDelete(store, pool.w[w].archive_msg.hash)
    /\ Goes(w, [pool.w[w] EXCEPT !.pc = "set"])
    /\ UNCHANGED <<mail, dirs, nextId, aside>>

\* mailarchive.py 159-161: the record is written; UPDATED
SetRecord(w) ==
    /\ pool.w[w].pc = "set"
    /\ store' = StoreSet(store, pool.w[w].archive_msg.hash,
                         RecordStr(pool.w[w].record))
    /\ Returns(w, pool.w[w], UPDATED)
    /\ UNCHANGED <<mail, dirs, nextId, aside>>

\* mailarchive.py 119-124: the folder, the copy filed, the record built
File(w) ==
    /\ pool.w[w].pc = "file"
    /\ LET l == pool.w[w]
           name == FolderName(l.msg.flags, l.msg.hash)
           msgid == MsgId(nextId)
       IN  /\ dirs' = dirs \cup {name}
           /\ mail' = MailAdd(mail, msgid, name, l.msg)
           /\ nextId' = nextId + 1
           /\ Goes(w, [l EXCEPT
                  !.pc = "index",
                  !.folders = @ \cup {name},
                  !.record = NewRecord(l.msg.hash, msgid, l.msg.flags,
                                       l.msg.mtime, name)])
    /\ UNCHANGED <<store, aside>>

\* mailarchive.py 125-126: self.store[msg.content_hash] = str(record); ADDED
Index(w) ==
    /\ pool.w[w].pc = "index"
    /\ store' = StoreSet(store, pool.w[w].msg.hash, RecordStr(pool.w[w].record))
    /\ Returns(w, pool.w[w], ADDED)
    /\ UNCHANGED <<mail, dirs, nextId, aside>>

NextPool ==
    \E w \in Workers :
        \/ Take(w)
        \/ Lookup(w)
        \/ Refetch(w)
        \/ Load(w)
        \/ UpdateCopy(w)
        \/ DeleteRecord(w)
        \/ SetRecord(w)
        \/ File(w)
        \/ Index(w)

SpecPool == InitPool /\ [][NextPool]_vars


----------------------------------------------------------------------------
(* What the claims speak of *)

Copies(h) == {id \in DOMAIN mail : mail[id].hash = h}

\* a step in which the engine method named by calls ran on msg
Called(msg, calls) ==
    /\ ops' = ops + 1
    /\ last'.op \in {"process", "add", "update"}
    /\ last'.msg = msg
    /\ last'.calls = calls

Min(a, b) == IF a <= b THEN a ELSE b

\* C1: after importing source copies one after another into an archive that
\* was empty, every content hash imported has its key in the store and
\* exactly one filed copy, and its record's flags are the sorted union of
\* the flags of the copies imported with that hash.
C1_ImportMerges ==
    (hist.pristine /\ pc = "idle") =>
        \A h \in {s[1] : s \in hist.seen} :
            /\ StoreHas(store, h)
            /\ Cardinality(Copies(h)) = 1
            /\ ParseRecord(store[h]).err = ""
            /\ ParseRecord(store[h]).rec.flags =
                 JoinSorted(UNION {Chars(s[2]) : s \in {x \in hist.seen : x[1] = h}})

C1_Witness ==
    /\ hist.pristine
    /\ pc = "idle"
    /\ {<<"h1", <<"S">>>>, <<"h1", <<"R", "S">>>>} \subseteq hist.seen
    /\ StoreHas(store, "h1")
    /\ ParseRecord(store["h1"]).rec.flags = <<"R", "S">>
    /\ Cardinality(Copies("h1")) = 1

\* C2: add(msg) for a content hash that is no key of the store returns
\* Added; afterwards the store holds a record under that hash, the maildir
\* holds exactly one new copy and nothing else changed in it, and the
\* record's folder and msgid are where that copy was filed.
C2_AddFilesOnce ==
    [][\A msg \in Msgs :
        (Called(msg, <<"add">>) /\ ~StoreHas(store, msg.hash)) =>
            /\ last'.result = ADDED
            /\ StoreHas(store', msg.hash)
            /\ \A k \in DOMAIN store : StoreHas(store', k) /\ store'[k] = store[k]
            /\ DOMAIN store' = DOMAIN store \cup {msg.hash}
            /\ \A id \in DOMAIN mail : id \in DOMAIN mail' /\ mail'[id] = mail[id]
            /\ \E id \in DOMAIN mail' \ DOMAIN mail :
                  /\ DOMAIN mail' = DOMAIN mail \cup {id}
                  /\ mail'[id].hash = msg.hash
                  /\ ParseRecord(store'[msg.hash]).err = ""
                  /\ ParseRecord(store'[msg.hash]).rec.msgid = id
                  /\ ParseRecord(store'[msg.hash]).rec.folder = mail'[id].folder
                  /\ mail'[id].folder \in dirs'
      ]_vars

C2_Witness ==
    /\ ops = 1
    /\ ext = 0
    /\ last.op = "add"
    /\ last.result = ADDED
    /\ Cardinality(Copies(last.msg.hash)) = 1
    /\ StoreHas(store, last.msg.hash)

\* the record under msg.hash resolves to a live message
Resolves(msg) ==
    LET r == ParseRecord(store[msg.hash]).rec
    IN  r.folder \in folders /\ InFolder(mail, r.folder, r.msgid)

\* update_message ran, alone, on a key that holds a record
Updating(msg) ==
    /\ Called(msg, <<"update">>)
    /\ StoreHas(store, msg.hash)
    /\ ParseRecord(store[msg.hash]).err = ""

Stale(msg) ==
    LET r == ParseRecord(store[msg.hash]).rec
    IN  ~(r.mtime <= msg.mtime /\ Chars(msg.flags) \subseteq Chars(r.flags))

\* C3 as stated: update(msg) returns Existing and changes neither the store
\* nor any folder exactly when record.mtime <= msg.mtime and msg.flags is a
\* subset of record.flags; in every other case it returns Updated.
C3_Original ==
    [][\A msg \in Msgs :
        Updating(msg) =>
            IF Stale(msg) THEN last'.result = UPDATED
            ELSE /\ last'.result = EXISTING
                 /\ store' = store /\ mail' = mail /\ dirs' = dirs
      ]_vars

\* C3 as amended: as stated, except that when the record is stale and does
\* not resolve to a live archived copy, update raises KeyError and changes
\* nothing.
C3_UpdateDecision ==
    [][\A msg \in Msgs :
        Updating(msg) =>
            IF Stale(msg)
            THEN IF Resolves(msg) THEN last'.result = UPDATED
                 ELSE /\ last'.result = "KeyError"
                      /\ store' = store /\ mail' = mail /\ dirs' = dirs
            ELSE /\ last'.result = EXISTING
                 /\ store' = store /\ mail' = mail /\ dirs' = dirs
      ]_vars

C3_Witness ==
    /\ last.calls = <<"update">>
    /\ last.result = "KeyError"
    /\ StoreHas(store, last.msg.hash)
    /\ ParseRecord(store[last.msg.hash]).err = ""
    /\ Stale(last.msg)
    /\ ~Resolves(last.msg)

\* C4: once update(msg) has been applied to a record that resolves to a
\* live copy, update(msg) with the same msg returns Existing and changes
\* neither the store nor the folder tree.
C4_UpdateIdempotent ==
    [][\A msg \in Msgs :
        (/\ last.op = "update" /\ last.msg = msg
         /\ last.result \in {UPDATED, EXISTING}
         /\ Resolves(msg)
         /\ last'.op = "update"
         /\ Called(msg, <<"update">>)) =>
            /\ last'.result = EXISTING
            /\ store' = store /\ mail' = mail /\ dirs' = dirs
      ]_vars

\* C5: in no step of an import, an update or a check does the record under
\* a content hash lose a flag or get a later mtime.
C5_RecordsMonotone ==
    [][(ext' = ext /\ last'.op # "add") =>
        \A h \in DOMAIN store \cap DOMAIN store' :
            LET r == ParseRecord(store[h])
                q == ParseRecord(store'[h])
            IN  (r.err = "" /\ q.err = "") =>
                    /\ Chars(r.rec.flags) \subseteq Chars(q.rec.flags)
                    /\ q.rec.mtime <= r.rec.mtime
      ]_vars

\* C6: whenever update(msg) returns Updated, the mtime of the record it
\* wrote and of the archived copy it wrote back are both
\* min(previous record.mtime, msg.mtime).
C6_UpdatedMtimeIsMin ==
    [][\A msg \in Msgs :
        (Updating(msg) /\ last'.result = UPDATED) =>
            LET r == ParseRecord(store[msg.hash]).rec
                q == ParseRecord(store'[msg.hash]).rec
            IN  /\ q.mtime = Min(r.mtime, msg.mtime)
                /\ mail'[r.msgid].mtime = Min(r.mtime, msg.mtime)
      ]_vars

\* C7: check(repair=false) changes neither the store nor the folder tree
\* (the folders and the messages in each).
C7_CheckOnlyReads ==
    [][(pc \in {"A", "B"} /\ ~chk.repair) =>
          (store' = store /\ mail' = mail /\ dirs' = dirs)
      ]_vars

\* C8: a check(repair=true) that follows a completed check(repair=true)
\* finds nothing and changes neither the store nor the folder tree.
C8_RepairFixedPoint ==
    [][(hist.afterRepair /\ pc \in {"A", "B"} /\ chk.repair) =>
          /\ store' = store /\ mail' = mail /\ dirs' = dirs
          /\ chk'.errors = <<>> /\ chk'.log = {}
          /\ last'.result \in {"<none>", "returned"}
      ]_vars

\* phase B examines the message at the head of the queue
Examining(msgid) ==
    /\ pc = "B"
    /\ ~chk.STOP
    /\ chk.msgq # <<>>
    /\ msgid = Head(chk.msgq)
    /\ chk'.examined = chk.examined + 1

\* C9: when check examines a tracked message that lies in a folder other
\* than its canonical one, it reports it; with repair the message is then in
\* the canonical folder and the stored record names that folder; without
\* repair the message and the store are as they were.
C9_MisplacedRelocated ==
    [][\A msgid \in DOMAIN mail :
        (/\ Examining(msgid)
         /\ msgid \in DOMAIN chk.records
         /\ mail[msgid].folder # FolderName(mail[msgid].flags, mail[msgid].hash)) =>
            LET msg == mail[msgid]
                name == FolderName(msg.flags, msg.hash)
            IN  /\ <<msgid, "misplaced">> \in chk'.log
                /\ pc' = "B"
                /\ IF chk.repair
                   THEN /\ InFolder(mail', name, msgid)
                        /\ name \in dirs'
                        /\ StoreHas(store', msg.hash)
                        /\ ParseRecord(store'[msg.hash]).rec.folder = name
                        /\ ParseRecord(store'[msg.hash]).rec.msgid = msgid
                   ELSE mail' = mail /\ store' = store
      ]_vars

C9_Witness ==
    /\ pc = "B"
    /\ chk.repair
    /\ \E msgid \in DOMAIN mail :
          /\ <<msgid, "misplaced">> \in chk.log
          /\ msgid \in DOMAIN chk.records
          /\ mail[msgid].folder = FolderName(mail[msgid].flags, mail[msgid].hash)
          /\ mail[msgid].folder # chk.folder
          /\ ParseRecord(store[mail[msgid].hash]).rec.folder = mail[msgid].folder

\* C10: a record whose msgid is empty is reported by check; with repair its
\* key is deleted, without repair the store is untouched, and the scan goes
\* on with the remaining records.
C10_EmptyMsgidHandled ==
    [][(/\ pc = "A" /\ ~chk.STOP /\ chk.keys # <<>>
        /\ chk'.examined = chk.examined + 1
        /\ ParseRecord(store[Head(chk.keys)]).err = ""
        /\ ParseRecord(store[Head(chk.keys)]).rec.msgid \in {<<>>, None}) =>
            /\ Len(chk'.errors) > Len(chk.errors)
            /\ IF chk.repair THEN ~StoreHas(store', Head(chk.keys))
               ELSE store' = store
            /\ pc' = "A"
      ]_vars

\* the year as four decimal digits
Year4(y) ==
    <<DigitTok[((y \div 1000) % 10) + 1], DigitTok[((y \div 100) % 10) + 1],
      DigitTok[((y \div 10) % 10) + 1], DigitTok[(y % 10) + 1]>>

Classified == cls.folder # None

\* C11: the classifier's rules apply in order: a message with the Draft flag
\* goes to <root>/Drafts whatever its other flags, date and headers are;
\* otherwise one with the Trashed flag goes to <root>/Trash; only otherwise
\* does the folder begin with <root>/<4-digit year>.
C11_RulesInOrder ==
    Classified =>
        IF "D" \in Chars(cls.flags) THEN cls.folder = <<"Archive", "/", "Drafts">>
        ELSE IF "T" \in Chars(cls.flags) THEN cls.folder = <<"Archive", "/", "Trash">>
        ELSE /\ Len(cls.folder) >= 6
             /\ SubSeq(cls.folder, 1, 6) = <<"Archive", "/">> \o Year4(cls.year)

C11_Witness ==
    /\ Classified
    /\ {"D", "T"} \subseteq Chars(cls.flags)
    /\ cls.year = 2020
    /\ cls.headers # NoHeaders
    /\ cls.folder = <<"Archive", "/", "Drafts">>

\* C12: for a message with neither the Draft nor the Trashed flag the
\* classifier answers <root>/<year> and then /Notes or /To Do when the
\* platform header names that kind, else /Sent when the message has neither
\* a delivered-to nor a received header (a message without any header
\* included), else nothing.
C12_YearAndSuffix ==
    (Classified /\ Chars(cls.flags) \cap {"D", "T"} = {}) =>
        cls.folder =
            <<"Archive", "/">> \o Year4(cls.year) \o
            (IF cls.headers.uti = "com.apple.mail-note" THEN <<"/", "Notes">>
             ELSE IF cls.headers.uti = "com.apple.mail-todo" THEN <<"/", "To Do">>
             ELSE IF ~cls.headers.delivered /\ ~cls.headers.received
                  THEN <<"/", "Sent">>
             ELSE <<>>)

\* C13: on every backend, get and delete of a key that is absent both fail
\* with KeyError, and `key in store` is false.
C13_AbsentKeyRaises ==
    /\ (kv.op \in {"get", "delete"} /\ kv.absent) => kv.out = "KeyError"
    /\ (kv.op = "in" /\ kv.absent) => kv.out = "False"

\* C14: when the block of a store transaction ends by an exception, the
\* store holds what it held when the transaction began.
C14_FailedTransactionLeavesNothing ==
    kv.op = "exit on exception" => kv.db = kv.begin

\* C15: on the symlink backend keys() answers exactly the keys present.
C15_KeysAreCurrent ==
    (kv.backend = "sym" /\ kv.op = "keys") => kv.listed = DOMAIN kv.db

\* process_message ran on msg in dry-run mode
DryRun(msg) ==
    /\ ops' = ops + 1
    /\ last'.op = "process"
    /\ last'.dry
    /\ last'.msg = msg

\* C16: a dry-run import changes neither the store nor the folder tree, and
\* the outcome it reports for each message of a sequence is the one a real
\* import of that sequence from the same state reports: for the first
\* message, and for a second message after a first.
C16_DryRunAgrees ==
    [][\A msg \in Msgs :
        DryRun(msg) =>
            /\ store' = store /\ mail' = mail /\ dirs' = dirs
            /\ last'.result = process_message(Ar, msg, FALSE).result
            /\ (last.op = "process" /\ last.dry) =>
                  last'.result =
                     process_message(process_message(Ar, last.msg, FALSE).ar,
                                     msg, FALSE).result
      ]_vars

\* C17: a run during whose check or import SIGINT arrived exits with a
\* non-zero status.
C17_CancelledRunFails ==
    (run.phase = "exited" /\ (run.sigCheck \/ run.sigImport)) =>
        run.status # 0

\* C18: in a run that reached the import and was not interrupted, every
\* message of every source folder is processed, whatever failed on the way.
C18_ImportGoesOn ==
    (run.phase = "exited" /\ run.began /\ ~run.STOP) =>
        /\ run.paths = <<>>
        /\ Len(run.done) = 2

\* nothing is left for check to find: every record names a live message of
\* its hash, in its canonical folder, with no flag or earlier mtime the
\* record lacks, and every message is named by a record
Consistent ==
    /\ \A h \in DOMAIN store :
          LET p == ParseRecord(store[h])
          IN  /\ p.err = ""
              /\ p.rec.msgid \in DOMAIN mail
              /\ mail[p.rec.msgid].folder = p.rec.folder
              /\ mail[p.rec.msgid].hash = h
              /\ Chars(mail[p.rec.msgid].flags) \subseteq Chars(p.rec.flags)
              /\ mail[p.rec.msgid].mtime >= p.rec.mtime
              /\ p.rec.folder = FolderName(mail[p.rec.msgid].flags, h)
    /\ \A id \in DOMAIN mail :
          \E h \in DOMAIN store : ParseRecord(store[h]).rec.msgid = id

\* check ran to its end and returned
CheckReturned ==
    /\ pc = "idle"
    /\ last.op = "check"
    /\ last.result = "returned"
    /\ ~chk.STOP

\* C19: check returns the number of findings it left unresolved: 0 when run
\* with repair and leaving nothing to find, and without repair the number
\* of all findings, those about folders included.
C19_ReturnsUnresolved ==
    CheckReturned =>
        IF chk.repair THEN Consistent => chk.ret = 0
        ELSE chk.ret = Len(chk.errors) +
                Cardinality({e \in chk.log : e[2] \in {"misplaced", "record folder"}})

\* every message was handed out and every worker has returned
PoolFinished ==
    /\ pool.finished = 2
    /\ pool.tasks = <<>>
    /\ \A w \in Workers : pool.w[w].pc = "idle"

\* C20: once all workers have finished with source messages that share one
\* content hash, the archive holds one record and one filed copy for that
\* hash, and the record names that copy.
C20_OneRecordOneCopy ==
    PoolFinished =>
        /\ StoreHas(store, "h1")
        /\ Cardinality(Copies("h1")) = 1
        /\ ParseRecord(store["h1"]).err = ""
        /\ \A id \in Copies("h1") :
              /\ ParseRecord(store["h1"]).rec.msgid = id
              /\ ParseRecord(store["h1"]).rec.folder = mail[id].folder

\* both workers ran update_message to its end, on messages that differ in
\* flags and in mtime
BothUpdated ==
    /\ PoolFinished
    /\ \A w \in Workers : pool.w[w].result = UPDATED
    /\ pool.w["w1"].msg.flags # pool.w["w2"].msg.flags
    /\ pool.w["w1"].msg.mtime # pool.w["w2"].msg.mtime

\* C21: when two workers have each updated the same content hash, the final
\* record and the archived copy carry the flags of both messages and an
\* mtime no later than either message's.
C21_NoMergeLost ==
    BothUpdated =>
        /\ StoreHas(store, "h1")
        /\ ParseRecord(store["h1"]).err = ""
        /\ \A w \in Workers :
              LET msg == pool.w[w].msg
                  r == ParseRecord(store["h1"]).rec
              IN  /\ Chars(msg.flags) \subseteq Chars(r.flags)
                  /\ r.mtime <= msg.mtime
                  /\ \A id \in Copies("h1") :
                        /\ Chars(msg.flags) \subseteq Chars(mail[id].flags)
                        /\ mail[id].mtime <= msg.mtime

\* C22: after check(repair=True) has run to its end, every record in the
\* store deserializes and names a live message in the folder it gives.
C22_RepairedRecordsResolve ==
    CheckReturned /\ chk.repair =>
        \A h \in DOMAIN store :
            LET p == ParseRecord(store[h])
            IN  /\ p.err = ""
                /\ InFolder(mail, p.rec.folder, p.rec.msgid)

\* the copies of hash h filed in maildir m
CopiesIn(m, h) == {id \in DOMAIN m : m[id].hash = h}

\* C23: add(msg) for a content hash that is already a key of the store
\* returns Updated or Existing, leaves the number of filed copies of that
\* hash as it was, and leaves the record naming the message and the folder
\* it named before.
C23_AddOnExistingKey ==
    [][\A msg \in Msgs :
        (Called(msg, <<"add">>) /\ StoreHas(store, msg.hash)
           /\ ParseRecord(store[msg.hash]).err = "") =>
            /\ last'.result \in {UPDATED, EXISTING}
            /\ Cardinality(CopiesIn(mail', msg.hash))
                 = Cardinality(CopiesIn(mail, msg.hash))
            /\ StoreHas(store', msg.hash)
            /\ ParseRecord(store'[msg.hash]).rec.msgid
                 = ParseRecord(store[msg.hash]).rec.msgid
            /\ ParseRecord(store'[msg.hash]).rec.folder
                 = ParseRecord(store[msg.hash]).rec.folder
      ]_vars

\* C24: a stored value that does not split into four fields is reported by
\* phase A of check; with repair its key is deleted, without repair the
\* store is untouched, and the scan goes on with the remaining keys.
C24_GarbageRecordHandled ==
    [][(/\ pc = "A" /\ ~chk.STOP /\ chk.keys # <<>>
        /\ chk'.examined = chk.examined + 1
        /\ store[Head(chk.keys)] # <<>>
        /\ Len(Split(store[Head(chk.keys)], <<>>)) # 4) =>
            /\ Len(chk'.errors) > Len(chk.errors)
            /\ IF chk.repair THEN ~StoreHas(store', Head(chk.keys))
               ELSE store' = store
            /\ pc' = "A"
      ]_vars

\* phase A of a check with repair has visited every key, uncancelled
PhaseARepaired == pc = "A" /\ chk.repair /\ ~chk.STOP /\ chk.keys = <<>>

\* C25: when phase A of check(repair=True) has visited every key, every
\* record left in the store that names a live message holds all the flags
\* of that message.
C25_FlagsDriftRepaired ==
    PhaseARepaired =>
        \A h \in DOMAIN store :
            LET p == ParseRecord(store[h])
            IN  (p.err = "" /\ InFolder(mail, p.rec.folder, p.rec.msgid)) =>
                    Chars(mail[p.rec.msgid].flags) \subseteq Chars(p.rec.flags)

\* C26: SIGINT during check only sets the flag: the step in which it arrives
\* changes neither the store nor the maildir nor the position of the scan.
\* Once the flag is set the next step of check is its return: no further
\* record or message is examined, nothing is repaired, and a check
\* cancelled in phase A never enters phase B.
C26_CancelBetweenUnits ==
    [][/\ (pc \in {"A", "B"} /\ ~chk.STOP /\ chk'.STOP) =>
            /\ <<store', mail', dirs'>> = <<store, mail, dirs>>
            /\ pc' = pc
            /\ chk' = [chk EXCEPT !.STOP = TRUE]
       /\ (pc \in {"A", "B"} /\ chk.STOP) =>
            /\ <<store', mail', dirs'>> = <<store, mail, dirs>>
            /\ chk'.examined = chk.examined
            /\ chk'.errors = chk.errors
            /\ pc' = "idle"
            /\ last'.result = "returned"
      ]_vars

\* a check cancelled in phase A after its first record has returned: a key
\* was left unvisited and phase B never listed a folder
C26_Witness ==
    /\ pc = "idle"
    /\ last.op = "check"
    /\ last.result = "returned"
    /\ chk.STOP
    /\ chk.examined = 1
    /\ chk.keys # <<>>
    /\ chk.folder = None
    /\ chk.folderq = <<>>

\* C27: a second SIGINT that arrives while the first cancellation is still
\* draining, in import or in check, ends the process in that very step.
C27_SecondInterruptTerminates ==
    [][(~run.again /\ run'.again) =>
            /\ run'.phase = "exited"
            /\ run'.status = 143
      ]_vars

\* the string holds the record delimiter
HasDelimiter(s) == \E i \in 1..(Len(s) - 1) : SubSeq(s, i, i + 1) = delimiter

\* a record the codec is meant for: no field holds the delimiter, folder and
\* msgid are not empty
WellFormed(r) ==
    /\ ~HasDelimiter(r.folder) /\ ~HasDelimiter(r.msgid) /\ ~HasDelimiter(r.flags)
    /\ r.folder # <<>>
    /\ r.msgid # <<>>

\* C28: a well-formed record serialized and deserialized comes back with the
\* same folder, msgid, flags and mtime; a string of any number of fields
\* other than four is rejected.
C28_CodecRoundTrips ==
    codec.at = "parsed" =>
        /\ (codec.origin = "record" /\ WellFormed(codec.record)) =>
              /\ codec.err = ""
              /\ codec.back.folder = codec.record.folder
              /\ codec.back.msgid = codec.record.msgid
              /\ codec.back.flags = codec.record.flags
              /\ codec.back.mtime = codec.record.mtime
        /\ (codec.origin = "string" /\ Len(codec.fields) # 4) =>
              codec.err # ""

====
